---- MODULE Spec2Model ----
(***************************************************************************)
(* Model of src/main.py: a FastAPI application that guards three POST      *)
(* endpoints with a shared-secret token and forwards images or text to a   *)
(* chat-completion provider, relaying the provider's answer in an          *)
(* envelope.                                                               *)
(*                                                                         *)
(* Values.  An Optional[str] is a sequence of length <= 1: <<>> is None    *)
(* and <<s>> is the string s.  A base64 string is a sequence of            *)
(* one-character strings, so that encoding and string formatting are       *)
(* computed rather than assumed.  A JSON value of the request body is a    *)
(* record tagged by its JSON type.  A Python call either returns or        *)
(* raises; both are records tagged by "kind".                              *)
(*                                                                         *)
(* Scheduling.  The handlers are coroutines on one event loop and the      *)
(* provider client is the synchronous one, so a handler runs without       *)
(* interruption up to its next await.  The only await inside a handler     *)
(* body is `await file.read()` in analyze_image; every other handler is    *)
(* one atomic step once the framework has parsed the request.              *)
(***************************************************************************)
EXTENDS Integers, Sequences, FiniteSets, TLC

\* Number of requests in flight together.
MaxRequests == 2
\* Longest images_base64 array a caller sends.
MaxImages == 2

RequestIds == 1..MaxRequests

VARIABLES
    openai_api_key,   \* main.py:11, the provider key read at import
    access_token,     \* main.py:12, the shared secret read at import (None when unset)
    requests,         \* per request: position, inputs, provider outcome, response
    provider_calls    \* per request: the calls client.chat.completions.create received

vars == <<openai_api_key, access_token, requests, provider_calls>>

None == <<>>
Some(s) == <<s>>

\* The base64 alphabet (RFC 4648), value v at index v + 1.
Alphabet ==
    << "A", "B", "C", "D", "E", "F", "G", "H", "I", "J", "K", "L", "M",
       "N", "O", "P", "Q", "R", "S", "T", "U", "V", "W", "X", "Y", "Z",
       "a", "b", "c", "d", "e", "f", "g", "h", "i", "j", "k", "l", "m",
       "n", "o", "p", "q", "r", "s", "t", "u", "v", "w", "x", "y", "z",
       "0", "1", "2", "3", "4", "5", "6", "7", "8", "9", "+", "/" >>

----------------------------------------------------------------------------
(* Inputs the environment draws from. *)

\* Values os.getenv("ACCESS_TOKEN") can yield at startup.
ConfiguredSecrets == {None, Some("s3cret")}
\* Tokens a caller presents: absent, the secret, something else.
Tokens == {None, Some("s3cret"), Some("wrong")}

\* Uploaded files, as byte sequences of 1, 2 and 3 bytes (every padding case
\* of base64) and of 4 bytes (a second group).
Files == {<<77>>, <<77, 97>>, <<77, 97, 110, 255>>}
\* The file part of the multipart form: absent, or an upload.
FileParts == {None} \cup {Some(f) : f \in Files}

\* The i-th string of a caller's images_base64 array.  The strings of one
\* array are pairwise different, so the order of the messages is observable;
\* the first is not base64 at all.
CallerString(i) == IF i = 1 THEN <<"!", "?">> ELSE <<"T", Alphabet[i], "=", "=">>
ImageArrays == {[i \in 1..n |-> CallerString(i)] : n \in 0..MaxImages}
\* JSON values found under the key images_base64.
JsonValues ==
    {[type |-> "array", items |-> a] : a \in ImageArrays}
        \cup {[type |-> "null"], [type |-> "number", n |-> 5]}
\* Request bodies of /analyze-json: not a JSON object, an object without the
\* key, an object with the key.
JsonBodies ==
    {[is_object |-> FALSE]}
        \cup {[is_object |-> TRUE, has_images |-> FALSE]}
        \cup {[is_object |-> TRUE, has_images |-> TRUE, images_base64 |-> v] : v \in JsonValues}

\* The text field of the form: absent, or a string.
TextParts == {None, Some("hello"), Some("call me back")}

\* What the provider does with one call: raise, or answer with a list of choices.
ProviderOutcomes ==
    {[kind |-> "raise", message |-> "Connection error."],
     [kind |-> "return", choices |-> <<>>],
     [kind |-> "return", choices |-> <<"{\"status\":false,\"violation_reason\":\"two faces\"}">>]}

NoOutcome == [kind |-> "none"]
NoPayload == [is_object |-> FALSE]

Endpoints == {"/", "/analyze", "/analyze-json", "/analyze_text"}

----------------------------------------------------------------------------
(* Python results. *)

Return(v) == [kind |-> "return", value |-> v]
HTTPException(code, msg) == [kind |-> "HTTPException", status_code |-> code, detail |-> msg]
Raise(exc) == [kind |-> "raise", exc |-> exc]
RequestValidationError == [kind |-> "RequestValidationError"]

----------------------------------------------------------------------------
(* base64.b64encode(image_bytes).decode("utf-8"), computed on the bytes. *)

Sextet(n) == Alphabet[(n % 64) + 1]

RECURSIVE b64encode(_)
b64encode(bytes) ==
    IF Len(bytes) = 0 THEN <<>>
    ELSE IF Len(bytes) = 1 THEN
        LET n == bytes[1] * 16
        IN  <<Sextet(n \div 64), Sextet(n), "=", "=">>
    ELSE IF Len(bytes) = 2 THEN
        LET n == (bytes[1] * 256 + bytes[2]) * 4
        IN  <<Sextet(n \div 4096), Sextet(n \div 64), Sextet(n), "=">>
    ELSE
        LET n == bytes[1] * 65536 + bytes[2] * 256 + bytes[3]
        IN  <<Sextet(n \div 262144), Sextet(n \div 4096), Sextet(n \div 64), Sextet(n)>>
                \o b64encode(SubSeq(bytes, 4, Len(bytes)))

----------------------------------------------------------------------------
(* The functions of main.py. *)

\* Variant: the comparison is skipped when no token is presented
\* (`if token and token != access_token`).
verify_access_token_skips_absent(token) ==
    IF token # None /\ token # access_token
        THEN HTTPException(401, "Invalid or missing access token")
        ELSE Return(None)

\* Variant: an absent token is always rejected
\* (`if token is None or token != access_token`).
verify_access_token_rejects_absent(token) ==
    IF token = None \/ token # access_token
        THEN HTTPException(401, "Invalid or missing access token")
        ELSE Return(None)

\* main.py:19-22
verify_access_token(token) ==
    IF token # access_token
        THEN HTTPException(401, "Invalid or missing access token")
        ELSE Return(None)

\* Variant: response.choices[0] is read after the try block, so IndexError
\* leaves the function.
create_completion_unguarded_index(messages, outcome) ==
    LET call == [model |-> "gpt-4o-mini", messages |-> messages]
    IN  [calls |-> <<call>>,
         result |-> IF outcome.kind = "raise"
                        THEN Return([error |-> outcome.message])
                    ELSE IF Len(outcome.choices) = 0
                        THEN Raise("IndexError")
                    ELSE Return([response |-> outcome.choices[1]])]

\* Variant: the envelope of a success also carries the model name.
create_completion_extra_key(messages, outcome) ==
    LET call == [model |-> "gpt-4o-mini", messages |-> messages]
        ret  == IF outcome.kind = "raise"
                    THEN [error |-> outcome.message]
                ELSE IF Len(outcome.choices) = 0
                    THEN [error |-> "list index out of range"]
                ELSE [response |-> outcome.choices[1], model |-> "gpt-4o-mini"]
    IN  [calls |-> <<call>>, result |-> Return(ret)]

\* main.py:24-64.  `outcome` is what client.chat.completions.create does with
\* the call.  An empty choices list makes response.choices[0] raise
\* IndexError inside the try block.
create_completion(messages, outcome) ==
    LET call == [model |-> "gpt-4o-mini", messages |-> messages]
        ret  == IF outcome.kind = "raise"
                    THEN [error |-> outcome.message]
                ELSE IF Len(outcome.choices) = 0
                    THEN [error |-> "list index out of range"]
                ELSE [response |-> outcome.choices[1]]
    IN  [calls |-> <<call>>, result |-> Return(ret)]

\* main.py:71-76
ImagePrompt ==
    "Check if the profile picture meets these requirements: real photo (not AI generated), one clear face, good quality, no logos/copyrighted material, no impersonation, no NSFW/NSFL content, no overlays, appropriate clothing (shirt/pants), facing camera, professional pose, non-distracting background. Respond \"true\" if all met; otherwise, \"false\" with a brief reason. Ignore stock watermarks."
\* main.py:170-175
TextPrompt ==
    "The attached text is a \"reason for calling\" in an application. Check if the text meets these requirements: is appropriate for business, family, or friend interactions; does not contain inappropriate, offensive, harassing, threatening, or explicit content; can be any language and use respectful slang. Respond OK if all met; otherwise, Not OK with a brief reason."

\* main.py:93, the f-string
DataUrl(base64_image) == <<"data:image/jpeg;base64,">> \o base64_image

\* main.py:87-97
ImageMessage(base64_image) ==
    [role |-> "user",
     content |-> <<[type |-> "image_url", image_url |-> [url |-> DataUrl(base64_image)]]>>]

\* Python truthiness of a JSON value (main.py:157, `not base64_images`).
Falsy(v) ==
    \/ v.type = "null"
    \/ v.type = "array" /\ Len(v.items) = 0
    \/ v.type = "number" /\ v.n = 0

\* Whether `for x in v` (main.py:86) can iterate v.
Iterable(v) == v.type = "array"

\* Variant: the loop inserts each image message right after the system
\* message (messages.insert(1, ...)), which reverses the images.
call_gpt4_vision_inserts(base64_images, outcome) ==
    LET system == [role |-> "system",
                   content |-> <<[type |-> "text", text |-> ImagePrompt]>>]
        n == Len(base64_images.items)
    IN  IF ~Iterable(base64_images)
            THEN [calls |-> <<>>, result |-> Raise("TypeError")]
            ELSE create_completion(
                    <<system>> \o [i \in 1..n |->
                                        ImageMessage(base64_images.items[n + 1 - i])],
                    outcome)

\* main.py:66-99.  The system message is built first, the loop appends one
\* user message per element; iterating a non-iterable raises TypeError before
\* create_completion is reached.
call_gpt4_vision(base64_images, outcome) ==
    LET system == [role |-> "system",
                   content |-> <<[type |-> "text", text |-> ImagePrompt]>>]
    IN  IF ~Iterable(base64_images)
            THEN [calls |-> <<>>, result |-> Raise("TypeError")]
            ELSE create_completion(
                    <<system>> \o [i \in 1..Len(base64_images.items) |->
                                        ImageMessage(base64_images.items[i])],
                    outcome)

\* main.py:156, payload.get("images_base64", [])
payload_get(payload) ==
    IF payload.has_images
        THEN payload.images_base64
        ELSE [type |-> "array", items |-> <<>>]

\* What the framework sends for what the endpoint function did
\* (the @app.get / @app.post decorators): a returned value is the 200 body,
\* an HTTPException its status with {"detail": ...}, a request that fails
\* parameter validation 422, any other exception 500.
Respond(result) ==
    CASE result.kind = "return" ->
            [status |-> 200, body |-> result.value]
      [] result.kind = "HTTPException" ->
            [status |-> result.status_code, body |-> [detail |-> result.detail]]
      [] result.kind = "RequestValidationError" ->
            [status |-> 422, body |-> [detail |-> "Field required"]]
      [] OTHER ->
            [status |-> 500, body |-> [text |-> "Internal Server Error"]]

\* Variant: the payload is validated before the token.
analyze_image_json_validates_first(x_access_token, payload, outcome) ==
    LET guard == verify_access_token(x_access_token)
        base64_images == payload_get(payload)
    IN  IF Falsy(base64_images)
            THEN [calls |-> <<>>,
                  result |-> HTTPException(400, "Missing images_base64 in request body")]
        ELSE IF guard.kind # "return"
            THEN [calls |-> <<>>, result |-> guard]
        ELSE call_gpt4_vision(base64_images, outcome)

\* main.py:142-160, the body of analyze_image_json once its parameters are bound.
analyze_image_json(x_access_token, payload, outcome) ==
    LET guard == verify_access_token(x_access_token)
        base64_images == payload_get(payload)
    IN  IF guard.kind # "return"
            THEN [calls |-> <<>>, result |-> guard]
        ELSE IF Falsy(base64_images)
            THEN [calls |-> <<>>,
                  result |-> HTTPException(400, "Missing images_base64 in request body")]
        ELSE call_gpt4_vision(base64_images, outcome)

\* Variant: the text path reuses the image prompt.
analyze_text_image_prompt(text, x_access_token, outcome) ==
    LET guard == verify_access_token(x_access_token)
        messages == <<[role |-> "system", content |-> ImagePrompt],
                      [role |-> "user", content |-> text]>>
    IN  IF guard.kind # "return"
            THEN [calls |-> <<>>, result |-> guard]
            ELSE create_completion(messages, outcome)

\* main.py:163-182, the body of analyze_text once its parameters are bound.
analyze_text(text, x_access_token, outcome) ==
    LET guard == verify_access_token(x_access_token)
        messages == <<[role |-> "system", content |-> TextPrompt],
                      [role |-> "user", content |-> text]>>
    IN  IF guard.kind # "return"
            THEN [calls |-> <<>>, result |-> guard]
            ELSE create_completion(messages, outcome)

\* main.py:136-139, analyze_image after `await file.read()` delivered the bytes.
analyze_image(image_bytes, outcome) ==
    LET base64_image == b64encode(image_bytes)
    IN  call_gpt4_vision([type |-> "array", items |-> <<base64_image>>], outcome)

\* main.py:101-127
get_upload_form == Return([html |-> "<!DOCTYPE html> ..."])

----------------------------------------------------------------------------
(* The state machine. *)

NoResponse == [status |-> 0]

IdleRequest ==
    [pc |-> "idle", endpoint |-> "/", token |-> None, file |-> None,
     payload |-> NoPayload, text |-> None, outcome |-> NoOutcome,
     response |-> NoResponse]

Init ==
    /\ openai_api_key = Some("sk-test")
    /\ access_token \in ConfiguredSecrets
    /\ requests = [r \in RequestIds |-> IdleRequest]
    /\ provider_calls = [r \in RequestIds |-> <<>>]

\* Inputs of a request to `endpoint`; the parts the endpoint does not declare
\* are not part of the request.
RequestInputs(endpoint) ==
    [token : Tokens,
     file : IF endpoint = "/analyze" THEN FileParts ELSE {None},
     payload : IF endpoint = "/analyze-json" THEN JsonBodies ELSE {NoPayload},
     text : IF endpoint = "/analyze_text" THEN TextParts ELSE {None}]

\* A request arrives and the framework starts reading it.
Receive(r) ==
    /\ requests[r].pc = "idle"
    /\ \E endpoint \in Endpoints : \E in \in RequestInputs(endpoint) :
          requests' = [requests EXCEPT ![r] =
              [pc |-> "received", endpoint |-> endpoint, token |-> in.token,
               file |-> in.file, payload |-> in.payload, text |-> in.text,
               outcome |-> NoOutcome, response |-> NoResponse]]
    /\ UNCHANGED <<openai_api_key, access_token, provider_calls>>

\* Variant: the token a request presented is kept as the configured one.
Finish_keeps_token(r, out, outcome) ==
    /\ requests' = [requests EXCEPT ![r] =
          [@ EXCEPT !.pc = "done",
                    !.outcome = IF Len(out.calls) > 0 THEN outcome ELSE NoOutcome,
                    !.response = Respond(out.result)]]
    /\ provider_calls' = [provider_calls EXCEPT ![r] = @ \o out.calls]
    /\ access_token' = requests[r].token
    /\ UNCHANGED openai_api_key

\* The request ends: the response is sent, the provider calls made are logged.
Finish(r, out, outcome) ==
    /\ requests' = [requests EXCEPT ![r] =
          [@ EXCEPT !.pc = "done",
                    !.outcome = IF Len(out.calls) > 0 THEN outcome ELSE NoOutcome,
                    !.response = Respond(out.result)]]
    /\ provider_calls' = [provider_calls EXCEPT ![r] = @ \o out.calls]
    /\ UNCHANGED <<openai_api_key, access_token>>

\* GET /
GetUploadForm(r) ==
    /\ requests[r].pc = "received"
    /\ requests[r].endpoint = "/"
    /\ Finish(r, [calls |-> <<>>, result |-> get_upload_form], NoOutcome)

\* POST /analyze up to its await: File(...) is required, then lines 133-136.
AnalyzeImage(r) ==
    LET req == requests[r]
        guard == verify_access_token(req.token)
    IN  /\ req.pc = "received"
        /\ req.endpoint = "/analyze"
        /\ IF req.file = None
               THEN Finish(r, [calls |-> <<>>, result |-> RequestValidationError], NoOutcome)
           ELSE IF guard.kind # "return"
               THEN Finish(r, [calls |-> <<>>, result |-> guard], NoOutcome)
           ELSE /\ requests' = [requests EXCEPT ![r].pc = "reading"]
                /\ UNCHANGED <<openai_api_key, access_token, provider_calls>>

\* POST /analyze from the await on: lines 136-139.
AnalyzeImageRead(r) ==
    /\ requests[r].pc = "reading"
    /\ \E outcome \in ProviderOutcomes :
          Finish(r, analyze_image(requests[r].file[1], outcome), outcome)

\* POST /analyze-json: Body(...) must be a JSON object, then lines 154-160.
AnalyzeImageJson(r) ==
    LET req == requests[r]
    IN  /\ req.pc = "received"
        /\ req.endpoint = "/analyze-json"
        /\ IF ~req.payload.is_object
               THEN Finish(r, [calls |-> <<>>, result |-> RequestValidationError], NoOutcome)
               ELSE \E outcome \in ProviderOutcomes :
                       Finish(r, analyze_image_json(req.token, req.payload, outcome), outcome)

\* POST /analyze_text: Form(...) is required, then lines 168-182.
AnalyzeText(r) ==
    LET req == requests[r]
    IN  /\ req.pc = "received"
        /\ req.endpoint = "/analyze_text"
        /\ IF req.text = None
               THEN Finish(r, [calls |-> <<>>, result |-> RequestValidationError], NoOutcome)
               ELSE \E outcome \in ProviderOutcomes :
                       Finish(r, analyze_text(req.text[1], req.token, outcome), outcome)

Next ==
    \E r \in RequestIds :
        \/ Receive(r)
        \/ GetUploadForm(r)
        \/ AnalyzeImage(r)
        \/ AnalyzeImageRead(r)
        \/ AnalyzeImageJson(r)
        \/ AnalyzeText(r)

Spec == Init /\ [][Next]_vars

----------------------------------------------------------------------------
(* Vocabulary of the properties. *)

Done(r) == requests[r].pc = "done"
Status(r) == requests[r].response.status
Body(r) == requests[r].response.body
Guarded(r) == requests[r].endpoint \in {"/analyze", "/analyze-json", "/analyze_text"}
Mismatch(r) == requests[r].token # access_token

\* The framework could bind the endpoint function's required parameters.
ParamsBound(r) ==
    CASE requests[r].endpoint = "/analyze" -> requests[r].file # None
      [] requests[r].endpoint = "/analyze-json" -> requests[r].payload.is_object
      [] requests[r].endpoint = "/analyze_text" -> requests[r].text # None
      [] OTHER -> TRUE

\* The body of /analyze-json lacks images_base64 or holds the empty array.
ImagesMissingOrEmpty(r) ==
    /\ requests[r].endpoint = "/analyze-json"
    /\ requests[r].payload.is_object
    /\ \/ ~requests[r].payload.has_images
       \/ requests[r].payload.images_base64 = [type |-> "array", items |-> <<>>]

\* The body of /analyze-json holds a non-empty array of strings.
ImagesGiven(r) ==
    /\ requests[r].endpoint = "/analyze-json"
    /\ requests[r].payload.is_object
    /\ requests[r].payload.has_images
    /\ requests[r].payload.images_base64.type = "array"
    /\ Len(requests[r].payload.images_base64.items) > 0

\* The provider call of r failed: it raised, or answered without a choice.
ProviderFailed(r) ==
    \/ requests[r].outcome.kind = "raise"
    \/ requests[r].outcome.kind = "return" /\ Len(requests[r].outcome.choices) = 0

ProviderSucceeded(r) ==
    requests[r].outcome.kind = "return" /\ Len(requests[r].outcome.choices) > 0

\* base64 of the uploads, from RFC 4648 by hand.
KnownBase64(f) ==
    CASE f = <<77>> -> <<"T", "Q", "=", "=">>
      [] f = <<77, 97>> -> <<"T", "W", "E", "=">>
      [] f = <<77, 97, 110, 255>> -> <<"T", "W", "F", "u", "/", "w", "=", "=">>

\* The message list the image paths are to send for the strings `images`.
ImageMessages(images) ==
    <<[role |-> "system", content |-> <<[type |-> "text", text |-> ImagePrompt]>>]>>
        \o [i \in 1..Len(images) |->
                [role |-> "user",
                 content |-> <<[type |-> "image_url",
                                image_url |-> [url |-> <<"data:image/jpeg;base64,">> \o images[i]]]>>]]

----------------------------------------------------------------------------
(* C1 *)

\* C1 as stated: a request whose token differs from the configured secret
\* (an absent token included) is answered 401 by every endpoint and makes no
\* provider call.
C1_AsStated ==
    \A r \in RequestIds :
        Mismatch(r) =>
            /\ provider_calls[r] = <<>>
            /\ Done(r) => Status(r) = 401

\* C1 amended: a request whose token differs from the configured secret never
\* makes a provider call, on any endpoint; the three POST endpoints answer it
\* 401 when the framework could bind their required parameters and 422 when
\* it could not, and GET /, which has no guard, answers 200.
C1_MismatchNeverReachesProvider ==
    \A r \in RequestIds :
        Mismatch(r) =>
            /\ provider_calls[r] = <<>>
            /\ requests[r].outcome = NoOutcome
            /\ Done(r) =>
                  Status(r) = IF ~Guarded(r) THEN 200
                              ELSE IF ParamsBound(r) THEN 401
                              ELSE 422

\* A request with images and a wrong token was answered 401.
C1_Witness ==
    \E r \in RequestIds :
        /\ Done(r) /\ Mismatch(r) /\ ImagesGiven(r)
        /\ Status(r) = 401

----------------------------------------------------------------------------
(* C2 *)

\* C2: a provider call that raises, or that answers with an empty choices
\* list, never leaves create_completion as an exception: the request ends
\* with status 200 and the body {"error": <message>} with no other key.
C2_ProviderErrorIsEnvelope ==
    \A r \in RequestIds :
        Done(r) /\ ProviderFailed(r) =>
            /\ Status(r) = 200
            /\ DOMAIN Body(r) = {"error"}
            /\ requests[r].outcome.kind = "raise" =>
                  Body(r) = [error |-> requests[r].outcome.message]

\* One request met a raising provider, another an empty choices list.
C2_Witness ==
    /\ \E r \in RequestIds : Done(r) /\ requests[r].outcome.kind = "raise"
    /\ \E r \in RequestIds :
          /\ Done(r)
          /\ requests[r].outcome.kind = "return"
          /\ Len(requests[r].outcome.choices) = 0

----------------------------------------------------------------------------
(* C3 *)

\* C3: /analyze-json with the configured token and a body whose
\* images_base64 is missing or empty answers 400 without a provider call;
\* with a mismatched token the same body answers 401, not 400.
C3_MissingImagesIs400AfterGuard ==
    \A r \in RequestIds :
        Done(r) /\ ImagesMissingOrEmpty(r) =>
            /\ provider_calls[r] = <<>>
            /\ Status(r) = IF Mismatch(r) THEN 401 ELSE 400

\* An empty array was answered 400 and, with a wrong token, 401.
C3_Witness ==
    /\ \E r \in RequestIds :
          /\ Done(r) /\ ImagesMissingOrEmpty(r) /\ ~Mismatch(r)
          /\ requests[r].payload.has_images
          /\ Status(r) = 400
    /\ \E r \in RequestIds :
          /\ Done(r) /\ ImagesMissingOrEmpty(r) /\ Mismatch(r)
          /\ requests[r].payload.has_images
          /\ Status(r) = 401

----------------------------------------------------------------------------
(* C4 *)

\* The request passed the Access Guard and every validation of its input:
\* the framework's binding of the parameters and the emptiness test of
\* main.py:157.
PassedGuardAndValidation(r) ==
    /\ Guarded(r) /\ ParamsBound(r) /\ ~Mismatch(r)
    /\ requests[r].endpoint = "/analyze-json" =>
          ~Falsy(payload_get(requests[r].payload))

\* C4 as stated: a request makes at most one provider call, and exactly one
\* when it passed the Access Guard and input validation.
C4_ExactlyOneCall ==
    \A r \in RequestIds :
        /\ Len(provider_calls[r]) <= 1
        /\ Done(r) /\ PassedGuardAndValidation(r) => Len(provider_calls[r]) = 1

----------------------------------------------------------------------------
(* C5 *)

\* C5: a provider call that succeeds ends the request with status 200 and
\* the body {"response": <content of the first choice>}, the content as the
\* provider gave it and no other key.
C5_SuccessIsRawContent ==
    \A r \in RequestIds :
        Done(r) /\ ProviderSucceeded(r) =>
            /\ Status(r) = 200
            /\ Body(r) = [response |-> requests[r].outcome.choices[1]]

\* A request was answered with the provider's content.
C5_Witness ==
    \E r \in RequestIds :
        /\ Done(r) /\ ProviderSucceeded(r)
        /\ Len(provider_calls[r]) = 1

----------------------------------------------------------------------------
(* C6 *)

\* C6 as stated: on the three POST endpoints the status is 401 for a
\* mismatched token, 400 for a missing or empty images_base64, and 200 for
\* every other request, absent form fields and provider failures included.
C6_OnlyStatus401And400 ==
    \A r \in RequestIds :
        Done(r) /\ Guarded(r) =>
            /\ Status(r) \in {200, 400, 401}
            /\ Status(r) = 401 => Mismatch(r)
            /\ Status(r) = 400 => requests[r].endpoint = "/analyze-json"

----------------------------------------------------------------------------
(* C7 *)

----------------------------------------------------------------------------
(* C8 *)

SameInputs(r1, r2) ==
    /\ requests[r1].endpoint = requests[r2].endpoint
    /\ requests[r1].token = requests[r2].token
    /\ requests[r1].file = requests[r2].file
    /\ requests[r1].payload = requests[r2].payload
    /\ requests[r1].text = requests[r2].text
    /\ requests[r1].outcome = requests[r2].outcome

\* Two finished requests with the same token, payload and provider outcome
\* have the same status and body.
ResponseDetermined ==
    \A r1, r2 \in RequestIds :
        Done(r1) /\ Done(r2) /\ SameInputs(r1, r2) =>
            requests[r1].response = requests[r2].response

\* C8: no step writes the configuration, a step of one request leaves every
\* other request as it was, and whatever the interleaving the status and
\* body of a request depend only on its own token, payload and provider
\* outcome.
C8_NoInterference ==
    [][/\ access_token' = access_token
       /\ openai_api_key' = openai_api_key
       /\ \A r1, r2 \in RequestIds :
             r1 # r2 /\ requests'[r1] # requests[r1] =>
                 /\ requests'[r2] = requests[r2]
                 /\ provider_calls'[r2] = provider_calls[r2]
       /\ ResponseDetermined']_vars

\* Two uploads with the same inputs are both finished, each with a provider
\* call of its own.
C8_Witness ==
    \E r1, r2 \in RequestIds :
        /\ r1 # r2
        /\ Done(r1) /\ Done(r2) /\ SameInputs(r1, r2)
        /\ requests[r1].endpoint = "/analyze"
        /\ Len(provider_calls[r1]) = 1 /\ Len(provider_calls[r2]) = 1

----------------------------------------------------------------------------
(* C9 *)

\* C9: on the image paths with the configured token, a non-empty
\* images_base64 array of n strings makes one provider call of n + 1
\* messages: the image system prompt, then one user image message per string
\* in the caller's order, each string unchanged behind the data-URL prefix;
\* /analyze sends the base64 encoding of the uploaded bytes as the one image.
C9_ImageCallHasOneMessagePerImage ==
    \A r \in RequestIds :
        Done(r) /\ ~Mismatch(r) =>
            /\ ImagesGiven(r) =>
                  /\ Len(provider_calls[r]) = 1
                  /\ Len(provider_calls[r][1].messages) =
                        Len(requests[r].payload.images_base64.items) + 1
                  /\ provider_calls[r][1].messages =
                        ImageMessages(requests[r].payload.images_base64.items)
            /\ requests[r].endpoint = "/analyze" /\ requests[r].file # None =>
                  /\ Len(provider_calls[r]) = 1
                  /\ provider_calls[r][1].messages =
                        ImageMessages(<<KnownBase64(requests[r].file[1])>>)

\* An array of two strings and an upload of four bytes both reached the
\* provider.
C9_Witness ==
    /\ \E r \in RequestIds :
          /\ Done(r) /\ ~Mismatch(r) /\ ImagesGiven(r)
          /\ Len(requests[r].payload.images_base64.items) = 2
          /\ Len(provider_calls[r]) = 1
    /\ \E r \in RequestIds :
          /\ Done(r) /\ ~Mismatch(r)
          /\ requests[r].file = Some(<<77, 97, 110, 255>>)
          /\ Len(provider_calls[r]) = 1

----------------------------------------------------------------------------
(* C10 *)

\* C10: a POST endpoint whose parameters are bound answers 401 exactly when
\* the presented token differs from the configured value, None standing for
\* an absent token and for an unset ACCESS_TOKEN alike; so a request without
\* a token is answered 401 when a secret is configured and is accepted, and
\* reaches the provider, when none is.
C10_GuardIsEquality ==
    \A r \in RequestIds :
        Done(r) /\ Guarded(r) /\ ParamsBound(r) =>
            /\ Status(r) = 401 <=> requests[r].token # access_token
            /\ requests[r].token = None =>
                  IF access_token = None
                      THEN requests[r].endpoint # "/analyze-json" =>
                              Len(provider_calls[r]) = 1 /\ Status(r) = 200
                      ELSE Status(r) = 401 /\ provider_calls[r] = <<>>

\* With ACCESS_TOKEN unset, a request without a token reached the provider.
C10_Witness ==
    /\ access_token = None
    /\ \E r \in RequestIds :
          /\ Done(r) /\ requests[r].token = None
          /\ requests[r].endpoint = "/analyze_text"
          /\ Len(provider_calls[r]) = 1
          /\ Status(r) = 200

====
